---- MODULE Spec2Model ----
(***************************************************************************)
(* A model of the tadpole-catcher scraper (src/app.py, class Client).       *)
(*                                                                         *)
(* One run of Client.main is a sequential program; its position is pc.     *)
(* The disk (session file, artifact files, directories) survives from one  *)
(* run to the next, everything else is rebuilt by each run.  The remote    *)
(* side is the environment: the site (its tiles, pages and landing urls)   *)
(* is one of a set of scenarios and stays as it is from run to run, the    *)
(* answer to each request and the faults of each call are drawn with \E.   *)
(*                                                                         *)
(* Strings are sequences of symbols.  A symbol is an atom of the text      *)
(* ("/", "key=", "thumbnail=true", a host name, ...); no symbol is a        *)
(* suffix or a prefix of another one, so that the sequence operations      *)
(* below (strip, endswith, replace, split) act on symbol sequences as the  *)
(* Python string methods act on the characters.                            *)
(***************************************************************************)
EXTENDS Integers, Sequences, FiniteSets, TLC

VARIABLES
    \* ---- the disk, kept from run to run
    stateDir,      \* isdir('state')
    cookieFile,    \* state/cookies.pkl: [kind |-> "absent"|"unreadable"|"data", bytes |-> seq]
    files,         \* artifact files: function path -> [written, complete]
    dirs,          \* existing directories images/<year>/<month>
    \* ---- the remote album set
    site,          \* [albums, spa, redirects]: albums is the sequence of the tiles'
                   \* pages, a page is the sequence of its elements' style values
    \* ---- the browser (self.br)
    browserOpen,   \* between __enter__ and __exit__
    current_url,   \* self.br.current_url
    view,          \* the album the page shows: 0 is the album list alone
    brCookies,     \* the cookies of the live browser, a sequence
    \* ---- the fields of Client
    cookies,       \* self.cookies
    req_cookies,   \* self.req_cookies, a function name -> value
    month, year,   \* self.month / self.year: the tile the element belongs to
    \* ---- the generators' frames
    month_index,   \* iter_monthyear: month_index
    divs,          \* iter_urls: the elements find_elements_by_xpath returned
    div_index,     \* iter_urls: how many of them the for loop has taken
    url,           \* the url iter_urls yielded to download_images
    \* ---- control
    pc,            \* the position of the run
    run,           \* the number of the run
    raised,        \* what ended download_images: "none" while it runs
    exitStatus,    \* the process' exit status, -1 while it runs
    \* ---- observation
    sess,          \* the session steps of this run, in order
    album,         \* the tile whose page iter_urls took url from
    ops,           \* the effects of the last save_image call, in order
    outcome,       \* how the last save_image call ended
    resp,          \* the response the last save_image call received
    slept,         \* the durations its sleep can have had, in hundredths of a
                   \* second: all that randrange can draw; {} if it did not sleep
    touched,       \* the <<year, month, key>> save_image was called on in this run
    prevTouched,   \* the same of the run before
    prevFiles,     \* the artifact paths the run before left on the disk
    prevSess,      \* the session steps of the run before
    prevReq,       \* self.req_cookies at the end of the run before
    yielded,       \* the tiles iter_monthyear yielded in this run, in order
    lookup         \* the last tile lookup of iter_monthyear

disk    == <<stateDir, cookieFile, files, dirs>>
browser == <<browserOpen, current_url, view, brCookies>>
fields  == <<cookies, req_cookies, month, year>>
frames  == <<month_index, divs, div_index, url>>
control == <<pc, run, raised, exitStatus>>
call    == <<album, ops, outcome, resp, slept>>
history == <<sess, touched, prevTouched, prevFiles, prevSess, prevReq, yielded,
             lookup>>
vars    == <<disk, site, browser, fields, frames, control, call, history>>

----------------------------------------------------------------------------
(* Bounds of the model *)

\* tiles of the album list
MaxTiles == 2
\* runs of the program against the same disk
MaxRuns == 2
\* chunks of a response body
MaxChunks == 2

----------------------------------------------------------------------------
(* Sequences as strings *)

RECURSIVE LStrip(_, _)
LStrip(s, c) == IF s # <<>> /\ Head(s) = c THEN LStrip(Tail(s), c) ELSE s

RECURSIVE RStrip(_, _)
RStrip(s, c) ==
    IF s # <<>> /\ s[Len(s)] = c THEN RStrip(SubSeq(s, 1, Len(s) - 1), c) ELSE s

\* str.strip(c): c removed from both ends
Strip(s, c) == RStrip(LStrip(s, c), c)

StartsWith(s, p) == Len(p) <= Len(s) /\ SubSeq(s, 1, Len(p)) = p

\* str.endswith(p)
EndsWith(s, p) == Len(p) <= Len(s) /\ SubSeq(s, Len(s) - Len(p) + 1, Len(s)) = p

\* str.replace(old, new), old not empty: every occurrence, left to right
RECURSIVE Replace(_, _, _)
Replace(s, old, new) ==
    IF s = <<>> THEN <<>>
    ELSE IF StartsWith(s, old)
         THEN new \o Replace(SubSeq(s, Len(old) + 1, Len(s)), old, new)
         ELSE <<Head(s)>> \o Replace(Tail(s), old, new)

\* str.split(sep), sep not empty: the list of the parts
RECURSIVE SplitFrom(_, _, _)
SplitFrom(s, sep, part) ==
    IF s = <<>> THEN <<part>>
    ELSE IF StartsWith(s, sep)
         THEN <<part>> \o SplitFrom(SubSeq(s, Len(sep) + 1, Len(s)), sep, <<>>)
         ELSE SplitFrom(Tail(s), sep, Append(part, Head(s)))

Split(s, sep) == SplitFrom(s, sep, <<>>)

Range(s) == {s[i] : i \in 1..Len(s)}

----------------------------------------------------------------------------
(* Constants of Client *)

ROOT_URL == <<"http:", "/", "/", "tadpoles.com", "/">>
HOME_URL == <<"https:", "/", "/", "www", ".", "tadpoles.com", "/", "parents">>
MEDIA_HOST == <<"https:", "/", "/", "www", ".", "tadpoles.com">>
BLANK_URL == <<"data:,">>

WWW_ROOT == <<"https:", "/", "/", "www", ".", "tadpoles.com", "/">>
ALBUM_URL == HOME_URL \o <<"#", "month">>

Exts == {"jpg", "png", "mp4"}

MIN_SLEEP == 1
MAX_SLEEP == 3

\* the arguments of self.sleep(1, 2)
SAVE_MIN_SLEEP == 1
SAVE_MAX_SLEEP == 2

\* the durations drawn with the upper end included
SleepDurations_Inclusive(minsleep, maxsleep) ==
    LET _min == IF minsleep = 0 THEN MIN_SLEEP ELSE minsleep
        _max == IF maxsleep = 0 THEN MAX_SLEEP ELSE maxsleep
    IN  (_min * 100)..(_max * 100)

\* lines 100-105: the durations sleep(minsleep, maxsleep) can draw, in hundredths
\* of a second: randrange(_min * 100, _max * 100), an argument of 0 (or None)
\* stands for the default
SleepDurations(minsleep, maxsleep) ==
    LET _min == IF minsleep = 0 THEN MIN_SLEEP ELSE minsleep
        _max == IF maxsleep = 0 THEN MAX_SLEEP ELSE maxsleep
    IN  (_min * 100)..(_max * 100 - 1)

----------------------------------------------------------------------------
(* The session store: pickle, load_cookies, dump_cookies *)

Cookie(n, v, d) == [name |-> n, value |-> v, domain |-> d]
NoCookie == Cookie("", "", <<>>)

Op(o, c) == [op |-> o, arg |-> c]

\* pickle.dump of a list of cookie dicts: the opcode stream
RECURSIVE PickleItems(_)
PickleItems(cs) ==
    IF cs = <<>> THEN <<>> ELSE <<Op("DICT", Head(cs))>> \o PickleItems(Tail(cs))

PickleDump(cs) == <<Op("PROTO", NoCookie)>> \o PickleItems(cs) \o <<Op("STOP", NoCookie)>>

\* pickle.load: the list the stream holds, or the exception it raises
WellFormed(bytes) ==
    /\ Len(bytes) >= 2
    /\ bytes[1].op = "PROTO"
    /\ bytes[Len(bytes)].op = "STOP"
    /\ \A i \in 2..(Len(bytes) - 1) : bytes[i].op = "DICT"

\* the list read one opcode too early
PickleLoad_OffByOne(bytes) ==
    IF bytes = <<>> THEN [exc |-> "EOFError", value |-> <<>>]
    ELSE IF ~WellFormed(bytes) THEN [exc |-> "UnpicklingError", value |-> <<>>]
    ELSE [exc |-> "none",
          value |-> [i \in 1..(Len(bytes) - 2) |-> bytes[i].arg]]

PickleLoad(bytes) ==
    IF bytes = <<>> THEN [exc |-> "EOFError", value |-> <<>>]
    ELSE IF ~WellFormed(bytes) THEN [exc |-> "UnpicklingError", value |-> <<>>]
    ELSE [exc |-> "none",
          value |-> [i \in 1..(Len(bytes) - 2) |-> bytes[i + 1].arg]]

Absent     == [kind |-> "absent", bytes |-> <<>>]
Unreadable == [kind |-> "unreadable", bytes |-> <<>>]
Data(b)    == [kind |-> "data", bytes |-> b]

\* the cookies the browser holds after the interactive login
LoginCookies ==
    << Cookie("sid", "s1", <<"tadpoles.com">>),
       Cookie("sid", "s2", <<"www", ".", "tadpoles.com">>),
       Cookie("ga", "g1", <<"google.com">>) >>

\* lines 120-122: what dump_cookies writes when the browser holds br
DumpedStore(br) == Data(PickleDump(br))

\* a session file cut short while it was written
Truncated == SubSeq(PickleDump(LoginCookies), 1, 2)

\* open(COOKIE_FILE, "rb") then pickle.load: the exception raised, or "none"
LoadResult(cf) ==
    CASE cf.kind = "absent" -> [exc |-> "FileNotFoundError", value |-> <<>>]
      [] cf.kind = "unreadable" -> [exc |-> "PermissionError", value |-> <<>>]
      [] OTHER -> PickleLoad(cf.bytes)

\* the exceptions `except (OSError, IOError)` catches
IsOSError(exc) == exc \in {"FileNotFoundError", "PermissionError", "OSError"}

\* where br.get(u) ends: a site that redirects sends its root to the www host
Landing(u) == IF u = ROOT_URL /\ site.redirects THEN WWW_ROOT ELSE u

\* where a click on a tile ends: a single-page site keeps the url
ClickLanding == IF site.spa THEN HOME_URL ELSE ALBUM_URL

\* the test without the strip
DomainMatches_NoStrip(cur, cookie) == EndsWith(cur, cookie.domain)

\* add_cookies_to_browser's test of one cookie
DomainMatches(cur, cookie) == EndsWith(Strip(cur, "/"), cookie.domain)

RECURSIVE Injected(_, _)
Injected(cs, cur) ==
    IF cs = <<>> THEN <<>>
    ELSE (IF DomainMatches(cur, Head(cs)) THEN <<Head(cs)>> ELSE <<>>)
         \o Injected(Tail(cs), cur)

\* requestify_cookies: the dict after the loop; a later entry overwrites
NoReqCookies == [n \in {} |-> ""]

RECURSIVE Requestify(_, _)
Requestify(cs, acc) ==
    IF cs = <<>> THEN acc
    ELSE Requestify(Tail(cs),
            [n \in DOMAIN acc \cup {Head(cs).name} |->
                IF n = Head(cs).name THEN Head(cs).value ELSE acc[n]])

----------------------------------------------------------------------------
(* The remote album set *)

\* the style attribute of an element that shows the media at raw url u
Style(u) == <<"background-image:url", "(\"">> \o u \o <<"\"", ")">>
\* an element that shows no media
Decoration == <<"display:block">>

RawPlain(k)       == <<"/remote/v1/images?", "key=", k>>
RawThumbBefore(k) == <<"/remote/v1/images?", "thumbnail=true", "&", "key=", k>>
RawThumbAfter(k)  == <<"/remote/v1/images?", "key=", k, "&", "thumbnail=true">>
RawNoKey          == <<"/static/placeholder.png">>

\* the elements //li/div of tile i's page: the same key on every page, on the
\* odd pages twice
AlbumDivs(i) ==
    IF i % 2 = 1
    THEN <<Style(RawThumbBefore("A")), Decoration, Style(RawPlain("A"))>>
    ELSE <<Style(RawPlain("A"))>>

\* a page that shows one medium with the flag after the key, and then without
FlagAfter == <<Style(RawThumbAfter("A")), Style(RawPlain("A"))>>

\* the same with an element whose url carries no key, at place 2
WithNoKey(ds) == <<ds[1], Style(RawNoKey)>> \o SubSeq(ds, 2, Len(ds))

\* n tiles; tile bad (if any) holds the url without a key
MkSource(n, bad) ==
    [i \in 1..n |-> IF i = bad THEN WithNoKey(AlbumDivs(i)) ELSE AlbumDivs(i)]

\* n tiles that show no media but the first, which shows one
Plain(n) == [i \in 1..n |-> IF i = 1 THEN <<Style(RawPlain("A"))>> ELSE <<Decoration>>]

Site(a, s, r) == [albums |-> a, spa |-> s, redirects |-> r]

\* the labels of tile i: the calendar runs backwards from December 2020
MonthText(i) == 12 - ((i - 1) % 12)
YearText(i)  == 2020 - ((i - 1) \div 12)

----------------------------------------------------------------------------
(* iter_urls: the url of one element *)

\* re.compile('\("([^"]+)').search(style): group(1), or no match
RECURSIVE TakeUnquoted(_)
TakeUnquoted(s) ==
    IF s = <<>> \/ Head(s) = "\"" THEN <<>> ELSE <<Head(s)>> \o TakeUnquoted(Tail(s))

RECURSIVE ReSearch(_)
ReSearch(style) ==
    IF style = <<>> THEN [found |-> FALSE, group |-> <<>>]
    ELSE IF Head(style) = "(\"" /\ TakeUnquoted(Tail(style)) # <<>>
         THEN [found |-> TRUE, group |-> TakeUnquoted(Tail(style))]
         ELSE ReSearch(Tail(style))

\* lines 224-227
Normalize(raw) ==
    MEDIA_HOST \o Replace(Replace(raw, <<"thumbnail=true">>, <<>>),
                          <<"&", "thumbnail=true">>, <<>>)

\* the first element after place i whose style matches, 0 if none
NextMatch(ds, i) ==
    LET js == {j \in (i + 1)..Len(ds) : ReSearch(ds[j]).found}
    IN  IF js = {} THEN 0 ELSE CHOOSE j \in js : \A k \in js : j <= k

----------------------------------------------------------------------------
(* save_image *)

CTypes == {"image/jpeg", "image/png", "video/mp4", "text/html"}
Statuses == {200, 503}

\* What the environment does to one call: the fault it injects (if any) and the
\* response of the server.  A body has `chunks` chunks; under fault "stream" or
\* "interrupt" the body iterator raises after `failAt` of them.
Resp(f, st, ct, n, at) ==
    [fault |-> f, status |-> st, ctype |-> ct, chunks |-> n, failAt |-> at]

NoResp == Resp("no-request", 0, "", 0, 0)

Responses ==
    {Resp("makedirs", 0, "", 0, 0), Resp("request", 0, "", 0, 0)}
    \cup {Resp("none", st, "text/html", 1, 0) : st \in Statuses \ {200}}
    \cup {Resp("none", 200, ct, n, 0) : ct \in CTypes, n \in 0..MaxChunks}
    \cup {Resp("open", 200, ct, n, 0) : ct \in CTypes, n \in 1..MaxChunks}
    \cup UNION {{Resp(f, 200, ct, n, at) : ct \in CTypes, at \in 0..(n - 1)} :
                    f \in {"stream", "interrupt"}, n \in 1..MaxChunks}

\* the file name save_image builds from the labels, the key and the extension
Path(y, m, k, e) == <<y, m, k, e>>
DirOf(y, m) == <<y, m>>

\* line 235: `_, key = url.split("key=")` unpacks exactly two parts
KeyParts(u) == Split(u, <<"key=">>)

\* the check without its png test
AlreadyPresent_NoPng(fs, y, m, k) ==
    \/ Path(y, m, k, "jpg") \in DOMAIN fs
    \/ Path(y, m, k, "mp4") \in DOMAIN fs

\* the check without its video test
AlreadyPresent_NoVideo(fs, y, m, k) ==
    \/ Path(y, m, k, "jpg") \in DOMAIN fs
    \/ Path(y, m, k, "png") \in DOMAIN fs

\* the check of the jpg name alone
AlreadyPresent_JpgOnly(fs, y, m, k) == Path(y, m, k, "jpg") \in DOMAIN fs

\* lines 249-257
AlreadyPresent(fs, y, m, k) ==
    \/ Path(y, m, k, "jpg") \in DOMAIN fs
    \/ Path(y, m, k, "mp4") \in DOMAIN fs
    \/ Path(y, m, k, "png") \in DOMAIN fs

\* every status taken for a success
IsSuccess_Any(status) == status >= 0

\* line 271
IsSuccess(status) == status = 200

\* every other content type saved under the jpg name
ExtOf_OtherAsJpg(ct) ==
    CASE ct = "image/jpeg" -> "jpg"
      [] ct = "image/png" -> "png"
      [] ct = "video/mp4" -> "mp4"
      [] OTHER -> "jpg"

\* png content saved under the jpg name
ExtOf_PngAsJpg(ct) ==
    CASE ct = "image/jpeg" -> "jpg"
      [] ct = "image/png" -> "jpg"
      [] ct = "video/mp4" -> "mp4"
      [] OTHER -> ""

\* lines 278-286: the extension of a content type, "" if it is not supported
ExtOf(ct) ==
    CASE ct = "image/jpeg" -> "jpg"
      [] ct = "image/png" -> "png"
      [] ct = "video/mp4" -> "mp4"
      [] OTHER -> ""

\* lines 288-292: the chunks written before the loop ends or raises
Written(r) == IF r.fault \in {"stream", "interrupt"} THEN r.failAt ELSE r.chunks

\* the file opened before the loop
Opens_Eager(r) == r.chunks >= 0

\* f = open(filename, 'wb') happens at the first chunk
Opens(r) == r.chunks >= 1 /\ (r.fault \in {"stream", "interrupt"} => r.failAt >= 1)

\* what a file holds after w of n chunks were written to it
Content(w, n) == IF w = 0 THEN "empty" ELSE IF w < n THEN "partial" ELSE "complete"

WriteFile(fs, p, c) == [q \in DOMAIN fs \cup {p} |-> IF q = p THEN c ELSE fs[q]]

Ret(fs, ds, o, out) == [files |-> fs, dirs |-> ds, ops |-> o, outcome |-> out]

RECURSIVE Times(_, _)
Times(x, n) == IF n = 0 THEN <<>> ELSE <<x>> \o Times(x, n - 1)

\* lines 271-300: the response is in hand
OnResponse(fs, ds, y, m, k, r, o) ==
    IF ~IsSuccess(r.status) THEN Ret(fs, ds, o, "DownloadError")
    ELSE IF ExtOf(r.ctype) = "" THEN Ret(fs, ds, o, "skipped-unsupported-type")
    ELSE IF ~Opens(r)
         THEN Ret(fs, ds, o,
                  IF r.fault = "stream" THEN "ConnectionError"
                  ELSE IF r.fault = "interrupt" THEN "KeyboardInterrupt"
                  ELSE "saved-nothing")
    ELSE IF r.fault = "open" THEN Ret(fs, ds, o \o <<"open-failed">>, "OSError")
    ELSE Ret(WriteFile(fs, Path(y, m, k, ExtOf(r.ctype)), Content(Written(r), r.chunks)),
             ds,
             o \o <<"open">> \o Times("write", Written(r)) \o <<"close">>,
             IF r.fault = "stream" THEN "ConnectionError"
             ELSE IF r.fault = "interrupt" THEN "KeyboardInterrupt"
             ELSE "saved")

\* lines 259-270: the item is not there yet
Fetch(fs, ds, y, m, k, r) ==
    LET made == DirOf(y, m) \notin ds
        o1   == <<"isfile">> \o (IF made THEN <<"makedirs">> ELSE <<>>)
        ds1  == ds \cup {DirOf(y, m)}
    IN  IF made /\ r.fault = "makedirs" THEN Ret(fs, ds, <<"isfile">>, "OSError")
        ELSE IF r.fault = "request"
             THEN Ret(fs, ds1, o1 \o <<"sleep", "GET">>, "RequestException")
        ELSE OnResponse(fs, ds1, y, m, k, r, o1 \o <<"sleep", "GET">>)

\* save_image(url) with self.year / self.month on tiles y / m, under r
SaveImageResult(fs, ds, u, y, m, r) ==
    IF Len(KeyParts(u)) # 2 THEN Ret(fs, ds, <<>>, "ValueError")
    ELSE LET k == KeyParts(u)[2]
         IN  IF AlreadyPresent(fs, YearText(y), MonthText(m), k)
             THEN Ret(fs, ds, <<"isfile">>, "already-present")
             ELSE Fetch(fs, ds, YearText(y), MonthText(m), k, r)

\* whether the call sends a request, so that the response matters
Requests(fs, ds, u, y, m) ==
    /\ Len(KeyParts(u)) = 2
    /\ ~AlreadyPresent(fs, YearText(y), MonthText(m), KeyParts(u)[2])

\* the outcomes with which save_image returns to the loop of download_images
Returns == {"already-present", "saved", "saved-nothing", "skipped-unsupported-type"}

\* line 323: `except DownloadError`
Caught(out) == out = "DownloadError"

\* main: `except Exception` logs and the process ends normally; SystemExit(0)
\* ends it with status 0; KeyboardInterrupt is no Exception and ends it with 1
ExitStatusOf(exc) == IF exc = "KeyboardInterrupt" THEN 1 ELSE 0

----------------------------------------------------------------------------
(* The run *)

\* The environments of the runs.  A scenario is a site and the session store
\* the first run finds.  The download scenarios vary the albums, the paginator
\* scenarios the number of tiles and the site's urls, the session scenarios
\* the session file and the landing page.
Scenario(st, cf, sd) == [site |-> st, cookieFile |-> cf, stateDir |-> sd]

DownloadScenarios ==
    {Scenario(Site(MkSource(n, bad), FALSE, FALSE), Absent, TRUE) :
        n \in 1..MaxTiles, bad \in 0..MaxTiles}
    \cup {Scenario(Site(<<FlagAfter>>, FALSE, FALSE), Absent, TRUE)}

PaginatorScenarios ==
    {Scenario(Site(Plain(n), spa, FALSE), Absent, TRUE) :
        n \in 0..MaxTiles, spa \in BOOLEAN}

SessionScenarios ==
    {Scenario(Site(Plain(1), FALSE, r), cf, TRUE) :
        r \in BOOLEAN,
        cf \in {Absent, Unreadable, Data(Truncated), Data(<<>>),
                DumpedStore(LoginCookies)}}
    \cup {Scenario(Site(Plain(1), FALSE, FALSE), Absent, FALSE)}

Scenarios == DownloadScenarios \cup PaginatorScenarios \cup SessionScenarios

NoLookup == [tile |-> 0, view |-> 0, navigated |-> FALSE, found |-> FALSE]

\* Client() and __enter__: a fresh object and a fresh browser
Fresh ==
    /\ browserOpen' = TRUE
    /\ current_url' = BLANK_URL
    /\ view' = 0
    /\ brCookies' = <<>>
    /\ cookies' = <<>>
    /\ req_cookies' = NoReqCookies
    /\ month' = 0
    /\ year' = 0
    /\ month_index' = 0
    /\ divs' = <<>>
    /\ div_index' = 0
    /\ url' = <<>>
    /\ pc' = "start"
    /\ raised' = "none"
    /\ exitStatus' = -1
    /\ sess' = <<>>
    /\ album' = 0
    /\ ops' = <<>>
    /\ outcome' = "none"
    /\ resp' = NoResp
    /\ slept' = {}
    /\ touched' = {}
    /\ yielded' = <<>>
    /\ lookup' = NoLookup

Init ==
    /\ \E sc \in Scenarios :
         /\ site = sc.site
         /\ cookieFile = sc.cookieFile
         /\ stateDir = sc.stateDir
    /\ files = [p \in {} |-> Content(0, 0)]
    /\ dirs = {}
    /\ browserOpen = TRUE
    /\ current_url = BLANK_URL
    /\ view = 0
    /\ brCookies = <<>>
    /\ cookies = <<>>
    /\ req_cookies = NoReqCookies
    /\ month = 0
    /\ year = 0
    /\ month_index = 0
    /\ divs = <<>>
    /\ div_index = 0
    /\ url = <<>>
    /\ pc = "start"
    /\ run = 1
    /\ raised = "none"
    /\ exitStatus = -1
    /\ sess = <<>>
    /\ album = 0
    /\ ops = <<>>
    /\ outcome = "none"
    /\ resp = NoResp
    /\ slept = {}
    /\ touched = {}
    /\ prevTouched = {}
    /\ prevFiles = {}
    /\ prevSess = <<>>
    /\ prevReq = NoReqCookies
    /\ yielded = <<>>
    /\ lookup = NoLookup

\* an exception leaves download_images: main logs it (or not), __exit__ quits
\* the browser and the process ends
Exits(exc) ==
    /\ pc' = "exited"
    /\ raised' = exc
    /\ exitStatus' = ExitStatusOf(exc)
    /\ browserOpen' = FALSE
    /\ UNCHANGED <<run, current_url, view, brCookies>>

Goto(p) == pc' = p /\ UNCHANGED <<run, raised, exitStatus>>

\* line 187
FirstIndex == 1

\* the index advanced by two
NextIndex_Skip(i) == i + 2

\* line 208
NextIndex(i) == i + 1

\* line 305
NavigateRoot ==
    /\ pc = "start"
    /\ current_url' = Landing(ROOT_URL)
    /\ view' = 0
    /\ sess' = Append(sess, "root")
    /\ Goto("load")
    /\ UNCHANGED <<disk, site, browserOpen, brCookies, fields, frames, call,
                   touched, prevTouched, prevFiles, prevSess, prevReq, yielded, lookup>>

\* lines 307-309 and 111-116: load_cookies and the except clause around it
LoadCookies ==
    /\ pc = "load"
    /\ stateDir' = TRUE
    /\ LET r == LoadResult(cookieFile)
       IN  IF r.exc = "none"
           THEN /\ cookies' = r.value
                /\ sess' = Append(sess, "load:ok")
                /\ Goto("inject")
                /\ UNCHANGED browser
           ELSE IF IsOSError(r.exc)
           THEN /\ sess' = Append(sess, "load:" \o r.exc)
                /\ Goto("login")
                /\ UNCHANGED <<browser, cookies>>
           ELSE /\ sess' = Append(sess, "load:" \o r.exc)
                /\ Exits(r.exc)
                /\ UNCHANGED cookies
    /\ UNCHANGED <<cookieFile, files, dirs, site, req_cookies, month, year,
                   frames, call, touched, prevTouched, prevFiles, prevSess,
                   prevReq, yielded,
                   lookup>>

\* lines 311 and 145-180: the interactive login, which the site may refuse
DoLogin ==
    /\ pc = "login"
    /\ \E ok \in BOOLEAN :
         IF ok
         THEN /\ brCookies' = LoginCookies
              /\ \E u \in {current_url, HOME_URL} : current_url' = u
              /\ sess' = Append(sess, "login")
              /\ Goto("dump")
              /\ UNCHANGED <<browserOpen, view>>
         ELSE /\ sess' = Append(sess, "login:failed")
              /\ Exits("NoSuchElementException")
    /\ UNCHANGED <<disk, site, fields, frames, call, touched, prevTouched,
                   prevFiles, prevSess, prevReq, yielded, lookup>>

\* lines 312 and 118-122
DumpCookies ==
    /\ pc = "dump"
    /\ cookies' = brCookies
    /\ \E ok \in BOOLEAN :
         IF ok
         THEN /\ cookieFile' = DumpedStore(brCookies)
              /\ sess' = Append(sess, "save")
              /\ Goto("requestify")
              /\ UNCHANGED browser
         ELSE /\ sess' = Append(sess, "save:failed")
              /\ Exits("OSError")
              /\ UNCHANGED cookieFile
    /\ UNCHANGED <<stateDir, files, dirs, site, req_cookies, month, year,
                   frames, call, touched, prevTouched, prevFiles, prevSess,
                   prevReq, yielded,
                   lookup>>

\* lines 314 and 124-128
AddCookiesToBrowser ==
    /\ pc = "inject"
    /\ brCookies' = brCookies \o Injected(cookies, current_url)
    /\ sess' = Append(sess, "inject")
    /\ Goto("home")
    /\ UNCHANGED <<disk, site, browserOpen, current_url, view, fields, frames,
                   call, touched, prevTouched, prevFiles, prevSess, prevReq, yielded, lookup>>

\* line 315
NavigateHome ==
    /\ pc = "home"
    /\ current_url' = Landing(HOME_URL)
    /\ view' = 0
    /\ sess' = Append(sess, "home")
    /\ Goto("requestify")
    /\ UNCHANGED <<disk, site, browserOpen, brCookies, fields, frames, call,
                   touched, prevTouched, prevFiles, prevSess, prevReq, yielded, lookup>>

\* lines 318 and 130-135; then download_images starts iter_urls, which starts
\* iter_monthyear (line 187)
RequestifyCookies ==
    /\ pc = "requestify"
    /\ req_cookies' = Requestify(cookies, NoReqCookies)
    /\ sess' = Append(sess, "project")
    /\ month_index' = FirstIndex
    /\ Goto("months")
    /\ UNCHANGED <<disk, site, browser, cookies, month, year, divs, div_index,
                   url, call, touched, prevTouched, prevFiles, prevSess, prevReq,
                   yielded, lookup>>

\* the fields assigned after the yield: they lag one tile behind
FieldTile_Lagging(i) == IF i > 1 THEN i - 1 ELSE i

\* lines 204-205: self.month / self.year are the elements found at index i
FieldTile(i) == i

\* the test that takes every page for the home page
AtHome_Always(u) == u = u

\* line 193: the page is the home page iff its url is HOME_URL
AtHome(u) == u = HOME_URL

\* find_element_by_xpath for tile i succeeds iff the album list has it
HasTile(i) == i \in 1..Len(site.albums)

\* lines 188-206: one turn of iter_monthyear's loop, up to the yield or the exit
IterMonthyear ==
    /\ pc = "months"
    /\ LET nav == ~AtHome(current_url)
           v   == IF nav THEN 0 ELSE view
           u   == IF nav THEN Landing(HOME_URL) ELSE current_url
       IN  /\ lookup' = [tile |-> month_index, view |-> v, navigated |-> nav,
                         found |-> HasTile(month_index)]
           /\ IF HasTile(month_index)
              THEN /\ month' = FieldTile(month_index)
                   /\ year' = FieldTile(month_index)
                   /\ yielded' = Append(yielded, month_index)
                   /\ current_url' = u
                   /\ view' = v
                   /\ Goto("click")
                   /\ UNCHANGED <<browserOpen, brCookies>>
              ELSE /\ pc' = "exited"
                   /\ raised' = "SystemExit"
                   /\ exitStatus' = ExitStatusOf("SystemExit")
                   /\ browserOpen' = FALSE
                   /\ current_url' = u
                   /\ view' = v
                   /\ UNCHANGED <<run, brCookies, month, year, yielded>>
    /\ UNCHANGED <<disk, site, cookies, req_cookies, frames, call, sess,
                   touched, prevTouched, prevFiles, prevSess, prevReq>>

\* lines 214-220: iter_urls takes the tile iter_monthyear yielded (the one at
\* month_index), clicks it and lists the elements of the page
OpenAlbum ==
    /\ pc = "click"
    /\ view' = month_index
    /\ current_url' = ClickLanding
    /\ divs' = site.albums[month_index]
    /\ div_index' = 0
    /\ Goto("urls")
    /\ UNCHANGED <<disk, site, browserOpen, brCookies, fields, month_index, url,
                   call, history>>

\* lines 220-228: the for loop runs to its next yield; when it is over, the
\* outer loop asks iter_monthyear for the next tile (line 208)
IterUrls ==
    /\ pc = "urls"
    /\ LET j == NextMatch(divs, div_index)
       IN  IF j # 0
           THEN /\ url' = Normalize(ReSearch(divs[j]).group)
                /\ div_index' = j
                /\ album' = view
                /\ Goto("save")
                /\ UNCHANGED month_index
           ELSE /\ month_index' = NextIndex(month_index)
                /\ div_index' = Len(divs)
                /\ Goto("months")
                /\ UNCHANGED <<url, album>>
    /\ ops' = <<>>
    /\ outcome' = "none"
    /\ resp' = NoResp
    /\ slept' = {}
    /\ UNCHANGED <<disk, site, browser, fields, divs, history>>

\* the paths of fs that belong to the item of url u under tiles y / m
ItemOf(u, y, m) == <<YearText(y), MonthText(m), KeyParts(u)[2]>>

\* lines 320-324: one turn of the loop of download_images: save_image(url)
\* and the except clause around it
SaveImage ==
    /\ pc = "save"
    /\ \E r \in Responses :
         /\ r.fault = "makedirs" =>
                DirOf(YearText(year), MonthText(month)) \notin dirs
         /\ LET res == SaveImageResult(files, dirs, url, year, month, r)
                req == Requests(files, dirs, url, year, month)
            IN  /\ req \/ r = Resp("request", 0, "", 0, 0)
                /\ files' = res.files
                /\ dirs' = res.dirs
                /\ ops' = res.ops
                /\ outcome' = res.outcome
                /\ resp' = IF "GET" \in Range(res.ops) /\ r.fault # "request"
                           THEN r ELSE NoResp
                /\ slept' = IF "sleep" \in Range(res.ops)
                            THEN SleepDurations(SAVE_MIN_SLEEP, SAVE_MAX_SLEEP)
                            ELSE {}
                /\ touched' = IF Len(KeyParts(url)) = 2
                              THEN touched \cup {ItemOf(url, year, month)}
                              ELSE touched
                /\ IF res.outcome \in Returns \/ Caught(res.outcome)
                   THEN Goto("urls") /\ UNCHANGED browser
                   ELSE Exits(res.outcome)
    /\ UNCHANGED <<stateDir, cookieFile, site, fields, frames, album, sess,
                   prevTouched, prevFiles, prevSess, prevReq, yielded, lookup>>

\* the operator starts the program again: Client().main()
StartRun ==
    /\ pc = "exited"
    /\ run < MaxRuns
    /\ run' = run + 1
    /\ prevTouched' = touched
    /\ prevFiles' = DOMAIN files
    /\ prevSess' = sess
    /\ prevReq' = req_cookies
    /\ Fresh
    /\ UNCHANGED <<disk, site>>

Next ==
    \/ NavigateRoot
    \/ LoadCookies
    \/ DoLogin
    \/ DumpCookies
    \/ AddCookiesToBrowser
    \/ NavigateHome
    \/ RequestifyCookies
    \/ IterMonthyear
    \/ OpenAlbum
    \/ IterUrls
    \/ SaveImage
    \/ StartRun

Spec == Init /\ [][Next]_vars

----------------------------------------------------------------------------
(* Properties *)

\* the number of requests among the effects o
RECURSIVE Gets(_)
Gets(o) == IF o = <<>> THEN 0 ELSE (IF Head(o) = "GET" THEN 1 ELSE 0) + Gets(Tail(o))

\* the url in hand carries one key, and the item it names under the current tile
HasKey == Len(KeyParts(url)) = 2
Item == <<YearText(year), MonthText(month), KeyParts(url)[2]>>
ItemPath(e) == <<Item[1], Item[2], Item[3], e>>
ItemFiles(fs) == {e \in Exts : ItemPath(e) \in DOMAIN fs}

\* a save_image call has just ended
CallEnded == outcome # "none"

\* C1: a call that finds a file at one of the three candidate paths of its item
\* returns at once: no request, no sleep, no directory made, no file created or
\* changed, and the loop goes on.
C1_DedupNoEffect ==
    [][(pc = "save" /\ HasKey /\ ItemFiles(files) # {})
        => /\ outcome' = "already-present"
           /\ Gets(ops') = 0
           /\ "sleep" \notin Range(ops')
           /\ files' = files
           /\ dirs' = dirs
           /\ pc' = "urls"]_vars

C1_Witness ==
    /\ pc = "urls"
    /\ outcome = "already-present"
    /\ "png" \in ItemFiles(files)

\* C2 as stated: in a later run every call on an item the run before called
\* save_image on returns already-present.
C2_Original ==
    (run >= 2 /\ CallEnded /\ HasKey /\ Item \in prevTouched)
        => outcome = "already-present"

\* C2 as amended: no item ever has two files, and in a later run every call on an
\* item the run before left a file of returns already-present without a request
\* and leaves the disk as it was; an item the run before called save_image on and
\* left without a file is requested again.
C2_NoDuplicate ==
    \A p \in DOMAIN files : \A q \in DOMAIN files :
        (p[1] = q[1] /\ p[2] = q[2] /\ p[3] = q[3]) => p = q

C2_Idempotent ==
    /\ []C2_NoDuplicate
    /\ [][(pc = "save" /\ run >= 2 /\ HasKey)
            => IF \E e \in Exts : ItemPath(e) \in prevFiles
               THEN /\ outcome' = "already-present"
                    /\ Gets(ops') = 0
                    /\ files' = files
               ELSE Item \in prevTouched /\ ItemFiles(files) = {}
                        => Gets(ops') = 1 \/ outcome' = "OSError"]_vars

C2_Witness ==
    /\ run = 2
    /\ pc = "urls"
    /\ outcome = "already-present"
    /\ HasKey
    /\ \E e \in Exts : ItemPath(e) \in prevFiles
    /\ Cardinality(prevFiles) >= 2

\* C3: from an empty download root, whatever the runs and however they end, no
\* (year, month, key) has more than one of its three artifact files.
C3_AtMostOneArtifact ==
    \A p \in DOMAIN files :
        Cardinality({e \in Exts : <<p[1], p[2], p[3], e>> \in DOMAIN files}) = 1

C3_Witness ==
    /\ run = 2
    /\ pc = "exited"
    /\ \E p \in DOMAIN files : \E q \in DOMAIN files :
          p[4] # q[4] /\ files[p] = "partial" /\ files[q] = "complete"
    /\ \E p \in DOMAIN files : p \notin prevFiles

Failures == {"DownloadError", "RequestException", "ValueError", "OSError", "ConnectionError"}

C5_FailureIsolated == (CallEnded /\ outcome \in Failures) => (pc = "urls" /\ raised = "none")

\* C6: on a 200 response the only file the call can create is the one at the
\* candidate path of the content type (jpeg -> jpg, png -> png, mp4 -> mp4), and
\* it does create it once a first chunk has arrived and the file could be opened;
\* on any other content type it returns normally and the disk is as it was.
ExtByType == [t \in CTypes \ {"text/html"} |->
                 IF t = "image/jpeg" THEN "jpg" ELSE IF t = "image/png" THEN "png" ELSE "mp4"]

C6_ContentTypeCommit ==
    [][(pc = "save" /\ resp'.status = 200)
        => IF resp'.ctype \in DOMAIN ExtByType
           THEN /\ DOMAIN files' \subseteq DOMAIN files \cup {ItemPath(ExtByType[resp'.ctype])}
                /\ \A p \in DOMAIN files : files'[p] = files[p]
                /\ (resp'.chunks >= 1 /\ resp'.fault = "none")
                       => /\ ItemFiles(files') = {ExtByType[resp'.ctype]}
                          /\ files'[ItemPath(ExtByType[resp'.ctype])] = "complete"
                          /\ outcome' = "saved"
           ELSE /\ files' = files
                /\ ItemFiles(files') = {}
                /\ outcome' = "skipped-unsupported-type"
                /\ pc' = "urls"]_vars

C6_Witness ==
    /\ pc = "urls"
    /\ outcome = "saved"
    /\ resp.ctype = "image/png"
    /\ ItemFiles(files) = {"png"}

\* C7 as stated: after N yields the sequence stops without raising.
Tiles == [i \in 1..Len(site.albums) |-> i]

C7_Original ==
    (pc = "exited" /\ lookup.tile # 0 /\ ~lookup.found)
        => (yielded = Tiles /\ raised = "none")

\* C7 as amended: iter_monthyear yields tiles 1..N in order, each once; the failed
\* lookup of tile N + 1 is caught and ends the sequence with sys.exit(0): the
\* generator raises SystemExit and the process ends with status 0.
C7_PaginationEnds ==
    /\ Len(yielded) <= Len(Tiles)
    /\ yielded = SubSeq(Tiles, 1, Len(yielded))
    /\ (lookup.tile # 0 /\ ~lookup.found)
          => /\ yielded = Tiles
             /\ lookup.tile = Len(Tiles) + 1
             /\ pc = "exited"
             /\ raised = "SystemExit"
             /\ exitStatus = 0

C7_Witness ==
    /\ pc = "exited"
    /\ raised = "SystemExit"
    /\ Len(yielded) = MaxTiles

\* C8: before the first tile lookup and the first request, the session steps of
\* the run were either load failed with NotFound, login, save, or load succeeded,
\* inject, home; and the session was projected.
FirstRunSteps == <<"root", "load:FileNotFoundError", "login", "save", "project">>
LaterRunSteps == <<"root", "load:ok", "inject", "home", "project">>

C8_SessionOrder ==
    (pc \in {"months", "click", "urls", "save"} \/ lookup.tile # 0 \/ CallEnded)
        => /\ sess \in {FirstRunSteps, LaterRunSteps}
           /\ req_cookies = Requestify(cookies, NoReqCookies)

\* C9: the login is started only when the session file does not exist; an
\* unreadable or corrupt file, a failed login and a failed save end the run
\* before any album is iterated.
C9_LoginOnlyWhenNotFound ==
    /\ (\E i \in 1..Len(sess) : sess[i] \in {"login", "login:failed"})
          => sess[2] = "load:FileNotFoundError"
    /\ (\E i \in 1..Len(sess) : sess[i] \in
            {"load:PermissionError", "load:UnpicklingError", "load:EOFError",
             "login:failed", "save:failed"})
          => /\ pc = "exited"
             /\ yielded = <<>>
             /\ lookup.tile = 0
             /\ ~CallEnded

\* C10: when add_cookies_to_browser returns, the browser holds exactly the loaded
\* entries whose domain is a suffix of the current url without its surrounding
\* slashes, in the order of the list.
Slashes(n) == [i \in 1..n |-> "/"]

StrippedUrl(u) ==
    CHOOSE t \in {SubSeq(u, i, j) : i \in 1..(Len(u) + 1), j \in 0..Len(u)} :
        /\ \E a \in 0..Len(u) : \E b \in 0..Len(u) : u = Slashes(a) \o t \o Slashes(b)
        /\ t # <<>> => (t[1] # "/" /\ t[Len(t)] # "/")

IsSuffix(d, t) == \E n \in 0..Len(t) : d = SubSeq(t, n + 1, Len(t))

C10_InjectIffSuffix ==
    pc = "home"
        => /\ \A i \in 1..Len(cookies) :
                 (cookies[i] \in Range(brCookies))
                     <=> IsSuffix(cookies[i].domain, StrippedUrl(current_url))
           /\ \A i \in 1..Len(brCookies) :
                 /\ brCookies[i] \in Range(cookies)
                 /\ IsSuffix(brCookies[i].domain, StrippedUrl(current_url))

C10_Witness ==
    /\ pc = "home"
    /\ \E i \in 1..Len(cookies) : cookies[i] \in Range(brCookies)
    /\ \E i \in 1..Len(cookies) :
          /\ cookies[i] \notin Range(brCookies)
          /\ cookies[i].domain = <<"www", ".", "tadpoles.com">>

\* this run loaded the session and projected it, the run before projected too
Loaded == Len(sess) >= 2 /\ sess[2] = "load:ok"
Projected(ss) == "project" \in Range(ss)

C11_RepeatedLoad ==
    /\ run = 2
    /\ pc = "months"
    /\ prevSess = LaterRunSteps
    /\ sess = LaterRunSteps
    /\ Cardinality(DOMAIN req_cookies) >= 2

\* the raw url of the element iter_urls took url from, and the key it carries:
\* the symbol after key=
RawUrl == ReSearch(divs[div_index]).group
RawKey(raw) == raw[1 + CHOOSE i \in 1..Len(raw) : raw[i] = "key="]
Flagged(u) == "thumbnail=true" \in Range(u)

\* C12: whether the raw url carries the flag before the key, after it or not at
\* all, the url iter_urls yields carries no flag, the key save_image derives from
\* it is the key of the raw url, and so the candidate paths are those of that key.
C12_KeyIdentity ==
    (pc = "save" /\ "key=" \in Range(RawUrl))
        => /\ ~Flagged(url)
           /\ HasKey
           /\ KeyParts(url)[2] = <<RawKey(RawUrl)>>
           /\ \A e \in Exts :
                 ItemPath(e) = Path(YearText(year), MonthText(month),
                                    <<RawKey(RawUrl)>>, e)

\* C13: once a save_image call has ended, with or without an exception, or the
\* run was interrupted while a body was streamed, every file at an artifact path
\* holds the whole body of its response.
C13_NoPartialArtifact ==
    (CallEnded \/ pc = "exited")
        => \A p \in DOMAIN files : files[p] = "complete"

\* C14: the file is opened only when a first chunk is there: each open is followed
\* at once by the write of a chunk, and a 200 response whose body yields no chunk,
\* or fails before the first one, leaves no file at any candidate path.
NoFirstChunk(r) ==
    \/ r.chunks = 0
    \/ r.fault \in {"stream", "interrupt"} /\ r.failAt = 0

C14_LazyOpen ==
    [][(pc = "save" /\ resp'.status = 200)
        => /\ \A i \in 1..Len(ops') :
                 ops'[i] = "open" => (i < Len(ops') /\ ops'[i + 1] = "write")
           /\ NoFirstChunk(resp')
                 => /\ "open" \notin Range(ops')
                    /\ files' = files
                    /\ ItemFiles(files') = {}]_vars

C14_Witness ==
    /\ pc = "urls"
    /\ outcome = "saved-nothing"
    /\ resp.status = 200
    /\ resp.ctype = "image/jpeg"
    /\ resp.chunks = 0
    /\ HasKey
    /\ ItemFiles(files) = {}

\* C15 as stated: every tile lookup is made on the album list with no album open:
\* after the click on the tile before, the paginator has navigated home; the
\* index starts at 1 and advances by one after each yielded tile.
C15_Original ==
    lookup.tile # 0
        => /\ lookup.view = 0
           /\ lookup.tile > 1 => lookup.navigated
           /\ lookup.tile = Len(yielded) + (IF lookup.found THEN 0 ELSE 1)

\* C15 as amended: the index of the lookups starts at 1 and advances by one after
\* each yielded tile; before a lookup the paginator navigates home iff the url is
\* not HOME_URL: after a click that changed the url the lookup is made on the
\* album list, after a click that left the url as it was no navigation happens
\* and the lookup is made with the album of the tile before still open.
C15_PaginatorStates ==
    lookup.tile # 0
        => /\ lookup.tile = Len(yielded) + (IF lookup.found THEN 0 ELSE 1)
           /\ lookup.tile = 1 => lookup.view = 0
           /\ (lookup.tile > 1 /\ ClickLanding # HOME_URL)
                 => (lookup.navigated /\ lookup.view = 0)
           /\ (lookup.tile > 1 /\ ClickLanding = HOME_URL)
                 => (~lookup.navigated /\ lookup.view = lookup.tile - 1)

C15_Witness ==
    /\ lookup.tile = 2
    /\ lookup.found
    /\ lookup.navigated
    /\ lookup.view = 0
    /\ pc = "click"

\* the number of sleeps among the effects o
RECURSIVE Sleeps(_)
Sleeps(o) ==
    IF o = <<>> THEN 0 ELSE (IF Head(o) = "sleep" THEN 1 ELSE 0) + Sleeps(Tail(o))

\* C16: in a call on an item that is not there yet, the dedup check comes first;
\* each request comes right after one sleep, with the directory of the item made
\* before that sleep if it was missing and there at the request; the sleep lasts
\* at least 1.00 s and less than 2.00 s; there are as many sleeps as requests.
C16_StepOrder ==
    [][(pc = "save" /\ HasKey /\ ItemFiles(files) = {})
        => /\ ops' # <<>>
           /\ ops'[1] = "isfile"
           /\ \A i \in 1..Len(ops') :
                 ops'[i] = "GET"
                     => /\ i > 1
                        /\ ops'[i - 1] = "sleep"
                        /\ DirOf(Item[1], Item[2]) \in dirs'
                        /\ DirOf(Item[1], Item[2]) \notin dirs
                              => \E j \in 1..(i - 2) : ops'[j] = "makedirs"
           /\ Sleeps(ops') = Gets(ops')
           /\ Gets(ops') >= 1
                 => /\ slept' # {}
                    /\ \A d \in slept' : 100 <= d /\ d < 200]_vars

C16_Witness ==
    /\ pc = "urls"
    /\ HasKey
    /\ ops = <<"isfile", "makedirs", "sleep", "GET">>
    /\ outcome = "DownloadError"
    /\ 100 \in slept
    /\ 199 \in slept

\* C17: a run that has established its session, and in which every request got
\* its response and body, ends only by reaching the end of the pagination: the
\* last tile lookup failed, the browser is shut down and the exit status is 0,
\* however many items were answered with a status other than 200.
NoResponse == {"RequestException", "ConnectionError", "KeyboardInterrupt"}

C17_RunTermination ==
    (pc = "exited" /\ Projected(sess) /\ outcome \notin NoResponse)
        => /\ lookup.tile # 0
           /\ ~lookup.found
           /\ raised = "SystemExit"
           /\ exitStatus = 0
           /\ ~browserOpen

\* the urls iter_urls yields from the page of tile i
UrlsOf(i) ==
    {Normalize(ReSearch(site.albums[i][j]).group) :
        j \in {k \in 1..Len(site.albums[i]) : ReSearch(site.albums[i][k]).found}}

\* C18: at every call save_image(url), self.month and self.year are the tile of
\* the album whose page url was taken from, and every file a call creates lies
\* under the year and month labels of that album.
C18_AlbumContext ==
    /\ [](pc = "save"
            => /\ album \in 1..Len(site.albums)
               /\ month = album
               /\ year = album
               /\ url \in UrlsOf(album))
    /\ [][pc = "save"
            => \A p \in DOMAIN files' \ DOMAIN files :
                  p[1] = YearText(album) /\ p[2] = MonthText(album)]_vars

C18_Witness ==
    /\ pc = "urls"
    /\ outcome = "saved"
    /\ album = 2
    /\ HasKey
    /\ Path(YearText(2), MonthText(2), KeyParts(url)[2], "jpg") \in DOMAIN files
    /\ Path(YearText(1), MonthText(1), KeyParts(url)[2], "jpg") \notin DOMAIN files

\* C19: the download root starts empty, and a file appears at a candidate path
\* only in a save_image call on that item whose request was answered with 200,
\* with the content type of the file's extension and with at least one chunk; a
\* call answered otherwise leaves the item without a file, and a call on an item
\* without a file does not take it for downloaded.
C19_Provenance ==
    /\ []((run = 1 /\ pc = "start") => DOMAIN files = {})
    /\ [][pc # "save" => DOMAIN files' = DOMAIN files]_vars
    /\ [][pc = "save"
            => /\ DOMAIN files \subseteq DOMAIN files'
               /\ \A p \in DOMAIN files' \ DOMAIN files :
                     /\ HasKey
                     /\ p = ItemPath(p[4])
                     /\ Gets(ops') = 1
                     /\ resp'.status = 200
                     /\ resp'.ctype \in DOMAIN ExtByType
                     /\ ExtByType[resp'.ctype] = p[4]
                     /\ resp'.chunks >= 1
                     /\ "write" \in Range(ops')
               /\ (Gets(ops') = 1 /\ (resp'.status # 200
                                       \/ resp'.ctype \notin DOMAIN ExtByType))
                     => (files' = files /\ ItemFiles(files') = {})
               /\ (HasKey /\ ItemFiles(files) = {})
                     => outcome' # "already-present"]_vars

C19_Witness ==
    /\ run = 2
    /\ pc = "urls"
    /\ outcome = "saved"
    /\ HasKey
    /\ Item \in prevTouched
    /\ ItemPath("jpg") \notin prevFiles
    /\ resp.ctype = "image/jpeg"
    /\ resp.chunks = MaxChunks
    /\ ItemFiles(files) = {"jpg"}

====
